---- MODULE Spec2Model ----
(***************************************************************************)
(* Model of docs/hooks.py: the MkDocs hooks that validate the CLI examples *)
(* embedded in documentation pages.                                        *)
(*                                                                         *)
(* Python strings are sequences of one-character strings, so that strip,   *)
(* startswith, split, substring search, the regular expression and the     *)
(* f-string messages are computed, character by character, as the code     *)
(* computes them.  Optional[str] is a record: None, or Some(s).            *)
(***************************************************************************)
EXTENDS Naturals, Sequences, FiniteSets

(***************************************************************************)
(* Bounds of the model.                                                    *)
(***************************************************************************)
MaxBlocks == 2      \* fenced blocks in one page
MaxLines == 2       \* lines in one page, over all of its blocks
MaxFrags == 2       \* fragments of a command handed to validate_cli_block

(***************************************************************************)
(* Python values.                                                          *)
(***************************************************************************)
None == [some |-> FALSE, val |-> <<>>]
Some(s) == [some |-> TRUE, val |-> s]

\* str.strip() and the regular expression's \s: the ASCII whitespace.
Whitespace == {" ", "\t", "\n", "\r", "\f"}

\* s[i:] with a 1-based i
From(s, i) == SubSeq(s, i, Len(s))

\* str.lstrip / str.rstrip / str.strip
RECURSIVE LStrip(_)
LStrip(s) ==
    IF s # <<>> /\ Head(s) \in Whitespace THEN LStrip(Tail(s)) ELSE s

RECURSIVE RStrip(_)
RStrip(s) ==
    IF s # <<>> /\ s[Len(s)] \in Whitespace
    THEN RStrip(SubSeq(s, 1, Len(s) - 1))
    ELSE s

Strip(s) == RStrip(LStrip(s))

\* str.startswith
StartsWith(s, p) == Len(p) <= Len(s) /\ SubSeq(s, 1, Len(p)) = p

\* text[i-1:].startswith(lit) for a 1-based i (re: a literal at a position)
IsAt(text, i, lit) ==
    /\ i >= 1
    /\ i + Len(lit) - 1 <= Len(text)
    /\ SubSeq(text, i, i + Len(lit) - 1) = lit

\* the substring test, t in s
Contains(s, t) == \E i \in 1..(Len(s) + 1) : IsAt(s, i, t)

\* str.split(sep) for a one-character separator
RECURSIVE Split(_, _)
Split(s, sep) ==
    IF \A i \in 1..Len(s) : s[i] # sep
    THEN <<s>>
    ELSE LET k == CHOOSE i \in 1..Len(s) :
                      s[i] = sep /\ \A j \in 1..(i - 1) : s[j] # sep
         IN  <<SubSeq(s, 1, k - 1)>> \o Split(From(s, k + 1), sep)

\* ''.join of a sequence of strings
RECURSIVE Concat(_)
Concat(ss) == IF ss = <<>> THEN <<>> ELSE Head(ss) \o Concat(Tail(ss))

(***************************************************************************)
(* Literals of the source.                                                 *)
(***************************************************************************)
ARBITER == <<"a","r","b","i","t","e","r">>
HELP_FLAG == <<"-","-","h","e","l","p">>
PROMPT == <<"$">>
HASH == <<"#">>
NL == <<"\n">>

VALIDATE_CLI_EXAMPLES == "VALIDATE_CLI_EXAMPLES"
VALIDATE_CLI_STRICT == "VALIDATE_CLI_STRICT"

\* the backquote character, which a TLA+ string cannot hold: one token
BQ == "bq"
FENCE == <<BQ, BQ, BQ>>
LANG_BASH == <<"b","a","s","h">>
LANG_SHELL == <<"s","h","e","l","l">>
LANG_CONSOLE == <<"c","o","n","s","o","l","e">>
FenceLangs == {LANG_BASH, LANG_SHELL, LANG_CONSOLE}
MARK_OPEN == <<"<","!","-","-">>
MARK_TEST == <<"t","e","s","t">>
MARK_CLOSE == <<"-","-",">">>

(***************************************************************************)
(* The pattern                                                             *)
(*   BQ{3}(?:bash|shell|console)\s*(?:<!--\s*test\s*-->)?\s*\n(.*?)BQ{3}    *)
(* under re.DOTALL, as re.finditer matches it.                             *)
(***************************************************************************)

\* greedy \s* from position i: the first position that holds no whitespace
RECURSIVE SkipWs(_, _)
SkipWs(text, i) ==
    IF i <= Len(text) /\ text[i] \in Whitespace THEN SkipWs(text, i + 1) ELSE i

\* <!--\s*test\s*--> at position i: the position after it, 0 when it fails
MarkerEnd(text, i) ==
    IF ~IsAt(text, i, MARK_OPEN) THEN 0
    ELSE LET j == SkipWs(text, i + Len(MARK_OPEN)) IN
         IF ~IsAt(text, j, MARK_TEST) THEN 0
         ELSE LET k == SkipWs(text, j + Len(MARK_TEST)) IN
              IF IsAt(text, k, MARK_CLOSE) THEN k + Len(MARK_CLOSE) ELSE 0

\* the first closing fence at or after position h, 0 when there is none
FindClose(text, h) ==
    LET C == {c \in h..Len(text) : IsAt(text, c, FENCE)}
    IN  IF C = {} THEN 0 ELSE CHOOSE c \in C : \A d \in C : c <= d

\* \s*(?:<!--\s*test\s*-->)?\s*\n from position i (after the language tag):
\* every way to match it, as [a: end of the first \s*, mk: marker taken,
\* b: end of the second \s*], b holding the newline
HeaderWays(text, i) ==
    LET A == i..SkipWs(text, i)
        With == UNION {{[a |-> a, mk |-> 1, b |-> b] :
                            b \in MarkerEnd(text, a)..SkipWs(text, MarkerEnd(text, a))} :
                       a \in {x \in A : MarkerEnd(text, x) # 0}}
        Without == UNION {{[a |-> a, mk |-> 0, b |-> b] :
                            b \in a..SkipWs(text, a)} : a \in A}
    IN  {w \in With \cup Without :
            IsAt(text, w.b, NL) /\ FindClose(text, w.b + 1) # 0}

\* the backtracking order of the engine: greedy \s*, the optional group
\* tried before its absence, greedy \s*
Preferred(w, v) ==
    \/ w.a > v.a
    \/ w.a = v.a /\ w.mk > v.mk
    \/ w.a = v.a /\ w.mk = v.mk /\ w.b >= v.b

\* the match that starts at position s, or NoMatch
NoMatch == [found |-> FALSE, start |-> 0, bodyStart |-> 0, bodyEnd |-> 0]

MatchAt(text, s) ==
    IF ~IsAt(text, s, FENCE) THEN NoMatch
    ELSE LET L == {l \in FenceLangs : IsAt(text, s + Len(FENCE), l)} IN
         IF L = {} THEN NoMatch
         ELSE LET lang == CHOOSE l \in L : TRUE
                  W == HeaderWays(text, s + Len(FENCE) + Len(lang))
                  Best == {x \in W : \A y \in W : Preferred(x, y)}
              IN  IF W = {} THEN NoMatch
                  ELSE LET w == CHOOSE x \in Best : TRUE
                       IN  [found |-> TRUE, start |-> s,
                            bodyStart |-> w.b + 1,
                            bodyEnd |-> FindClose(text, w.b + 1)]

\* the leftmost match at or after position from, or NoMatch
Search(text, from) ==
    LET S == {s \in from..Len(text) : IsAt(text, s, FENCE) /\ MatchAt(text, s).found}
    IN  IF S = {} THEN NoMatch
        ELSE MatchAt(text, CHOOSE s \in S : \A t \in S : s <= t)

\* match.group(1)
Group1(text, m) == SubSeq(text, m.bodyStart, m.bodyEnd - 1)

\* where finditer resumes after match m
MatchEnd(m) == m.bodyEnd + Len(FENCE)

(***************************************************************************)
(* validate_cli_block                                                      *)
(***************************************************************************)
MSG_SYNTAX_TIMEOUT == <<"S","y","n","t","a","x"," ","c","h","e","c","k"," ","t","i","m","e","d"," ","o","u","t",":"," ">>
MSG_SYNTAX_ERROR == <<"S","y","n","t","a","x"," ","e","r","r","o","r",":"," ">>
MSG_FAILED == <<"C","o","m","m","a","n","d"," ","f","a","i","l","e","d",":"," ">>
MSG_OUTPUT == <<"\n","O","u","t","p","u","t",":"," ">>
MSG_TIMED_OUT == <<"C","o","m","m","a","n","d"," ","t","i","m","e","d"," ","o","u","t",":"," ">>
MSG_EXEC_ERROR == <<"E","x","e","c","u","t","i","o","n"," ","e","r","r","o","r",":"," ">>
MSG_DASH == <<" ","-"," ">>
BASH_N_C == <<"b","a","s","h"," ","-","n"," ","-","c"," ","\"">>
DQUOTE == <<"\"">>

\* truth value of an Optional[str]: None and '' are false
TruthyWhenPresent(v) == v.some

Truthy(v) == v.some /\ v.val # <<>>

\* the command line handed to subprocess.run(..., shell=True)
ShellLine(command, dry_run) ==
    IF dry_run THEN BASH_N_C \o command \o DQUOTE ELSE command

\* What subprocess.run can do: the shell ends with a return code and an
\* error output, the timeout expires, or the call raises.
StderrTexts == {<<"e","r","r">>}
ExcTexts == {<<"b","o","o","m">>}
NoOutcome == [kind |-> "none", rc |-> 0, text |-> <<>>]
Outcomes ==
    {[kind |-> "exit", rc |-> 0, text |-> <<>>]}
    \cup {[kind |-> "exit", rc |-> 2, text |-> t] : t \in StderrTexts}
    \cup {[kind |-> "timeout", rc |-> 0, text |-> <<>>]}
    \cup {[kind |-> "exception", rc |-> 0, text |-> t] : t \in ExcTexts}

\* a command line with an odd number of double quotes has an open quote
RECURSIVE CountOf(_, _)
CountOf(s, c) ==
    IF s = <<>> THEN 0
    ELSE (IF Head(s) = c THEN 1 ELSE 0) + CountOf(Tail(s), c)

UnbalancedQuotes(s) == CountOf(s, "\"") % 2 = 1

\* the shell rejects a line with an open quote: it never ends with status 0
RunOutcomes(line) ==
    {o \in Outcomes : UnbalancedQuotes(line) => ~(o.kind = "exit" /\ o.rc = 0)}

\* the early returns: an empty command, a comment
SkipsCommandEmptyOnly(command) == Strip(command) = <<>>

SkipsCommand(command) ==
    \/ Strip(command) = <<>>
    \/ StartsWith(Strip(command), HASH)

\* dry-run mode lets every command that is not an arbiter command pass
OutOfScopeNever(command) == FALSE

OutOfScope(command) == ~StartsWith(Strip(command), ARBITER)

\* the try block of dry-run mode: what is returned when subprocess.run does o
DryRunResult(command, o) ==
    IF o.kind = "timeout" THEN Some(MSG_SYNTAX_TIMEOUT \o command)
    ELSE IF o.kind = "exception"
    THEN Some(MSG_SYNTAX_ERROR \o command \o MSG_DASH \o o.text)
    ELSE None

\* the try block of execute mode
ExecuteResultNoExemption(command, o) ==
    IF o.kind = "timeout" THEN Some(MSG_TIMED_OUT \o command)
    ELSE IF o.kind = "exception"
    THEN Some(MSG_EXEC_ERROR \o command \o MSG_DASH \o o.text)
    ELSE IF o.rc # 0
    THEN Some(MSG_FAILED \o command \o MSG_OUTPUT \o o.text)
    ELSE None

ExecuteResult(command, o) ==
    IF o.kind = "timeout" THEN Some(MSG_TIMED_OUT \o command)
    ELSE IF o.kind = "exception"
    THEN Some(MSG_EXEC_ERROR \o command \o MSG_DASH \o o.text)
    ELSE IF o.rc # 0 /\ ~Contains(command, HELP_FLAG)
    THEN Some(MSG_FAILED \o command \o MSG_OUTPUT \o o.text)
    ELSE None

\* validate_cli_block(command, dry_run) when subprocess.run, if it is
\* reached, does o: the returned Optional[str], and the command line spawned
\* (None when no subprocess is started)
ValidateCliBlock(command, dry_run, o) ==
    IF SkipsCommand(command) THEN [result |-> None, shell |-> None]
    ELSE IF dry_run THEN
        IF OutOfScope(command) THEN [result |-> None, shell |-> None]
        ELSE [result |-> DryRunResult(command, o),
              shell |-> Some(ShellLine(command, TRUE))]
    ELSE [result |-> ExecuteResult(command, o),
          shell |-> Some(ShellLine(command, FALSE))]

\* one call of validate_cli_block, as observed
CallRecord(command, dry_run, o) ==
    LET r == ValidateCliBlock(command, dry_run, o) IN
    [command |-> command, dry_run |-> dry_run, shell |-> r.shell,
     outcome |-> IF r.shell.some THEN o ELSE NoOutcome, result |-> r.result]

(***************************************************************************)
(* on_page_markdown: the command splitter and the report                   *)
(***************************************************************************)

\* the loop over code_block.split('\n')
RECURSIVE CommandsOfPromptKept(_)
CommandsOfPromptKept(lines) ==
    IF lines = <<>> THEN <<>>
    ELSE LET line == Strip(Head(lines)) IN
         (IF StartsWith(line, PROMPT) THEN <<From(line, 2)>>
          ELSE IF StartsWith(line, ARBITER) THEN <<line>>
          ELSE <<>>) \o CommandsOfPromptKept(Tail(lines))

RECURSIVE CommandsOf(_)
CommandsOf(lines) ==
    IF lines = <<>> THEN <<>>
    ELSE LET line == Strip(Head(lines)) IN
         (IF StartsWith(line, PROMPT) THEN <<Strip(From(line, 2))>>
          ELSE IF StartsWith(line, ARBITER) THEN <<line>>
          ELSE <<>>) \o CommandsOf(Tail(lines))

\* the commands of match.group(1)
ExtractCommands(group) == CommandsOf(Split(Strip(group), "\n"))

\* the position after validating command idx of the block's commands
AfterValidateBreak(idx, cmds, error) ==
    IF Truthy(error) THEN "report"
    ELSE IF idx = Len(cmds) THEN "scan" ELSE "validate"

AfterValidate(idx, cmds, error) ==
    IF idx = Len(cmds) THEN "scan" ELSE "validate"

UNKNOWN == <<"u","n","k","n","o","w","n">>
\* the warning sign that opens the report, one token
WARN_SIGN == "warn"
MSG_ERRORS_IN == <<" "," ","C","L","I"," ","v","a","l","i","d","a","t","i","o","n"," ","e","r","r","o","r","s"," ","i","n"," ">>
MSG_BULLET == <<" "," ","-"," ">>
MSG_FAILED_IN == <<"C","L","I"," ","v","a","l","i","d","a","t","i","o","n"," ","f","a","i","l","e","d"," ","i","n"," ">>

\* kwargs.get('page', {}).file.src_path if 'page' in kwargs else 'unknown';
\* kwargs is the Optional source path of the page argument
PageFile(kwargs) == IF kwargs.some THEN kwargs.val ELSE UNKNOWN

\* what print(...) writes: the text and the line end
Printed(text) == text \o NL

\* the lines the report writes to sys.stderr
RECURSIVE Bullets(_)
Bullets(errs) ==
    IF errs = <<>> THEN <<>>
    ELSE <<Printed(MSG_BULLET \o Head(errs))>> \o Bullets(Tail(errs))

ReportLines(errs, kwargs) ==
    IF errs = <<>> THEN <<>>
    ELSE <<Printed(<<"\n", WARN_SIGN>> \o MSG_ERRORS_IN \o PageFile(kwargs) \o <<":">>)>>
         \o Bullets(errs)

\* how on_page_markdown ends once every block is processed
ReportResultAlwaysStrict(errs, strict, kwargs, md) ==
    IF errs # <<>>
    THEN [kind |-> "raise", val |-> Some(MSG_FAILED_IN \o PageFile(kwargs))]
    ELSE [kind |-> "return", val |-> Some(md)]

ReportResult(errs, strict, kwargs, md) ==
    IF errs # <<>> /\ Truthy(strict)
    THEN [kind |-> "raise", val |-> Some(MSG_FAILED_IN \o PageFile(kwargs))]
    ELSE [kind |-> "return", val |-> Some(md)]

\* the guard of on_page_markdown and of on_pre_build
ValidationEnabledAlways(e) == TRUE

ValidationEnabled(e) == Truthy(e[VALIDATE_CLI_EXAMPLES])

(***************************************************************************)
(* on_pre_build                                                            *)
(***************************************************************************)
\* the magnifying glass that opens the banner, one token
GLASS_SIGN == "glass"
MSG_ENABLED == <<GLASS_SIGN>> \o <<" ","C","L","I"," ","e","x","a","m","p","l","e"," ","v","a","l","i","d","a","t","i","o","n"," ","e","n","a","b","l","e","d">>
MSG_STRICT == <<" "," "," ","R","u","n","n","i","n","g"," ","i","n"," ","S","T","R","I","C","T"," ","m","o","d","e"," ","-"," ","b","u","i","l","d"," ","w","i","l","l"," ","f","a","i","l"," ","o","n"," ","e","r","r","o","r","s">>

Banner(e) ==
    IF ~ValidationEnabled(e) THEN <<>>
    ELSE IF ~Truthy(e[VALIDATE_CLI_STRICT]) THEN <<Printed(MSG_ENABLED)>>
    ELSE <<Printed(MSG_ENABLED), Printed(MSG_STRICT)>>

(***************************************************************************)
(* Inputs.                                                                 *)
(***************************************************************************)
\* sequences over S of length at most n
SeqsUpTo(S, n) == UNION {[1..k -> S] : k \in 0..n}

\* the values an environment variable is given
EnvNames == {VALIDATE_CLI_EXAMPLES, VALIDATE_CLI_STRICT}
EnvValues == {None, Some(<<>>), Some(<<"0">>)}

\* commands handed to validate_cli_block: up to MaxFrags fragments
CmdFrags == {<<" ">>, HASH, ARBITER, HELP_FLAG, DQUOTE, <<"x">>}
Commands == {Concat(fs) : fs \in SeqsUpTo(CmdFrags, MaxFrags)}

\* lines of a fenced block
ARBITER_OPEN_QUOTE == PROMPT \o <<" ">> \o ARBITER \o <<" ">> \o DQUOTE \o <<"x">>
ARBITER_PLAIN == <<" ">> \o ARBITER \o <<" ","x">>
CoreLines == {ARBITER_PLAIN}
DocLines ==
    CoreLines \cup
    { ARBITER_OPEN_QUOTE,
      PROMPT \o <<" ">> \o HASH \o <<" ","c">>,
      PROMPT \o <<"l","s"," ">>,
      PROMPT,
      <<"o","k">> }

\* opening fences: two the pattern matches, one it does not
HEAD_BASH == FENCE \o LANG_BASH \o NL
HEAD_CONSOLE_MARKED ==
    FENCE \o LANG_CONSOLE \o <<" ">> \o MARK_OPEN \o <<" ">> \o MARK_TEST
          \o <<" ">> \o MARK_CLOSE \o NL
HEAD_PY == FENCE \o <<"p","y">> \o NL

RECURSIVE RenderLines(_)
RenderLines(ls) ==
    IF ls = <<>> THEN <<>> ELSE Head(ls) \o NL \o RenderLines(Tail(ls))

RECURSIVE Render(_)
Render(bs) ==
    IF bs = <<>> THEN <<>>
    ELSE Head(bs).head \o RenderLines(Head(bs).lines) \o FENCE \o NL
         \o Render(Tail(bs))

RECURSIVE TotalLines(_)
TotalLines(bs) ==
    IF bs = <<>> THEN 0 ELSE Len(Head(bs).lines) + TotalLines(Tail(bs))

\* pages of up to MaxBlocks fenced blocks that hold up to MaxLines command
\* lines in all, and pages of one marked block of up to MaxLines lines of
\* any kind
Blocks == [head : {HEAD_BASH, HEAD_PY}, lines : SeqsUpTo(CoreLines, MaxLines)]
Pages ==
    {Render(bs) : bs \in {x \in SeqsUpTo(Blocks, MaxBlocks) :
                              TotalLines(x) <= MaxLines}}
    \cup {Render(<<[head |-> HEAD_CONSOLE_MARKED, lines |-> ls]>>) :
              ls \in SeqsUpTo(DocLines, MaxLines)}

\* the keyword arguments of on_page_markdown: no page, or a page's path
PageArgs == {None, Some(<<"a",".","m","d">>)}

(***************************************************************************)
(* The state.                                                              *)
(***************************************************************************)
VARIABLES
    env,        \* os.environ, restricted to the two toggles
    pc,         \* "idle", the position in on_page_markdown, or "done"
    op,         \* the function last called
    markdown,   \* argument of on_page_markdown
    kwargs,     \* argument of on_page_markdown
    pos,        \* where re.finditer searches next
    group,      \* match.group(1) of the block being processed
    commands,   \* commands of the block being processed
    idx,        \* the next command of the block
    errors,     \* errors of the page
    calls,      \* the calls of validate_cli_block, in order
    stderr,     \* what was printed to sys.stderr
    stdout,     \* what was printed to sys.stdout
    ret         \* how the function ended: its return value or its exception

vars == <<env, pc, op, markdown, kwargs, pos, group, commands, idx, errors,
          calls, stderr, stdout, ret>>

NoRet == [kind |-> "none", val |-> None]

\* a hook is entered by the build, which leaves the environment alone
Entered ==
    /\ pc = "idle"
    /\ env' = env

Init ==
    /\ env = [n \in EnvNames |-> None]
    /\ pc = "idle"
    /\ op = "none"
    /\ markdown = <<>>
    /\ kwargs = None
    /\ pos = 1
    /\ group = <<>>
    /\ commands = <<>>
    /\ idx = 1
    /\ errors = <<>>
    /\ calls = <<>>
    /\ stderr = <<>>
    /\ stdout = <<>>
    /\ ret = NoRet

\* the process environment changes between two calls; the next call starts
\* with nothing observed
SetEnv(n, v) ==
    /\ pc \in {"idle", "done"}
    /\ env[n] # v
    /\ env' = [env EXCEPT ![n] = v]
    /\ pc' = "idle"
    /\ op' = "none"
    /\ markdown' = <<>>
    /\ kwargs' = None
    /\ pos' = 1
    /\ group' = <<>>
    /\ commands' = <<>>
    /\ idx' = 1
    /\ errors' = <<>>
    /\ calls' = <<>>
    /\ stderr' = <<>>
    /\ stdout' = <<>>
    /\ ret' = NoRet

\* on_pre_build(**kwargs)
OnPreBuild ==
    /\ Entered
    /\ op' = "on_pre_build"
    /\ stdout' = Banner(env)
    /\ ret' = [kind |-> "return", val |-> None]
    /\ pc' = "done"
    /\ markdown' = <<>>
    /\ kwargs' = None
    /\ pos' = 1
    /\ group' = <<>>
    /\ commands' = <<>>
    /\ idx' = 1
    /\ errors' = <<>>
    /\ calls' = <<>>
    /\ stderr' = <<>>

\* validate_cli_block(command, dry_run), called on its own
ValidateCall(command, dry_run) ==
    /\ Entered
    /\ \E o \in RunOutcomes(ShellLine(command, dry_run)) :
       \E c \in {CallRecord(command, dry_run, o)} :
          /\ calls' = <<c>>
          /\ ret' = [kind |-> "return", val |-> c.result]
    /\ op' = "validate_cli_block"
    /\ pc' = "done"
    /\ markdown' = <<>>
    /\ kwargs' = None
    /\ pos' = 1
    /\ group' = <<>>
    /\ commands' = <<>>
    /\ idx' = 1
    /\ errors' = <<>>
    /\ stderr' = <<>>
    /\ stdout' = <<>>

\* on_page_markdown(markdown, **kwargs): entry and the opt-in guard
PageStart(md, kw) ==
    /\ Entered
    /\ op' = "on_page_markdown"
    /\ markdown' = md
    /\ kwargs' = kw
    /\ pos' = 1
    /\ group' = <<>>
    /\ commands' = <<>>
    /\ idx' = 1
    /\ errors' = <<>>
    /\ calls' = <<>>
    /\ stderr' = <<>>
    /\ stdout' = <<>>
    /\ IF ValidationEnabled(env)
       THEN pc' = "scan" /\ ret' = NoRet
       ELSE pc' = "done" /\ ret' = [kind |-> "return", val |-> Some(md)]

\* one step of the loop over re.finditer: the next block and its commands
NextMatch ==
    /\ pc = "scan"
    /\ \E m \in {Search(markdown, pos)} :
          IF m.found
          THEN \E cmds \in {ExtractCommands(Group1(markdown, m))} :
                  /\ group' = Group1(markdown, m)
                  /\ commands' = cmds
                  /\ idx' = 1
                  /\ pos' = MatchEnd(m)
                  /\ pc' = IF cmds = <<>> THEN "scan" ELSE "validate"
          ELSE /\ pc' = "report"
               /\ UNCHANGED <<group, commands, idx, pos>>
    /\ UNCHANGED <<env, op, markdown, kwargs, errors, calls, stderr, stdout, ret>>

\* one step of the loop over the block's commands
ValidateStep ==
    /\ pc = "validate"
    /\ \E o \in RunOutcomes(ShellLine(commands[idx], TRUE)) :
       \E c \in {CallRecord(commands[idx], TRUE, o)} :
          /\ calls' = Append(calls, c)
          /\ errors' = IF Truthy(c.result) THEN Append(errors, c.result.val)
                       ELSE errors
          /\ pc' = AfterValidate(idx, commands, c.result)
    /\ idx' = idx + 1
    /\ UNCHANGED <<env, op, markdown, kwargs, pos, group, commands, stderr,
                   stdout, ret>>

\* the report, and the return or the raise
Report ==
    /\ pc = "report"
    /\ stderr' = ReportLines(errors, kwargs)
    /\ ret' = ReportResult(errors, env[VALIDATE_CLI_STRICT], kwargs, markdown)
    /\ pc' = "done"
    /\ UNCHANGED <<env, op, markdown, kwargs, pos, group, commands, idx, errors,
                   calls, stdout>>

Next ==
    \/ \E n \in EnvNames, v \in EnvValues : SetEnv(n, v)
    \/ OnPreBuild
    \/ \E c \in Commands, d \in BOOLEAN : ValidateCall(c, d)
    \/ \E md \in Pages, kw \in PageArgs : PageStart(md, kw)
    \/ NextMatch
    \/ ValidateStep
    \/ Report

Spec == Init /\ [][Next]_vars

(***************************************************************************)
(* Properties.                                                             *)
(***************************************************************************)
Done(f) == pc = "done" /\ op = f

\* the variable n is in os.environ
Present(n) == env[n].some

\* the variable n is in os.environ with a value that is not ''
NonEmpty(n) == env[n].some /\ Len(env[n].val) > 0

Returned(v) == ret = [kind |-> "return", val |-> v]

\* every command of every block the pattern matches, from position from on
RECURSIVE PageCommands(_, _)
PageCommands(text, from) ==
    LET m == Search(text, from) IN
    IF ~m.found THEN <<>>
    ELSE ExtractCommands(Group1(text, m)) \o PageCommands(text, MatchEnd(m))

\* the shell rejected the command line of a call, or never answered
Rejected(c) == c.shell.some /\ ~(c.outcome.kind = "exit" /\ c.outcome.rc = 0)

\* s holds whitespace only; the first character of s after whitespace is '#'
Blank(s) == \A i \in 1..Len(s) : s[i] \in Whitespace
Comment(s) ==
    \E i \in 1..Len(s) : s[i] = "#" /\ \A j \in 1..(i - 1) : s[j] \in Whitespace

\* C1: with both toggles set and a command of the page failing its syntax
\* check, on_page_markdown raises, and the message of the error holds the
\* page's source path, or 'unknown' without a page argument.
C1_StrictRaises ==
    (/\ Done("on_page_markdown")
     /\ NonEmpty(VALIDATE_CLI_EXAMPLES)
     /\ NonEmpty(VALIDATE_CLI_STRICT)
     /\ \E i \in 1..Len(calls) : Rejected(calls[i]))
    => /\ ret.kind = "raise"
       /\ Contains(ret.val.val, IF kwargs.some THEN kwargs.val ELSE UNKNOWN)

C3_OpenQuoteReported ==
    \A i \in 1..Len(calls) :
        (/\ calls[i].dry_run
         /\ StartsWith(calls[i].command, ARBITER)
         /\ UnbalancedQuotes(calls[i].command)
         /\ calls[i].outcome.kind = "exit"
         /\ calls[i].outcome.rc # 0)
        => /\ calls[i].result.some
           /\ StartsWith(calls[i].result.val, MSG_SYNTAX_ERROR)
           /\ Contains(calls[i].result.val, calls[i].command)

\* C4: when on_page_markdown, enabled, ends, every command of every matched
\* block was validated once, in source order and in dry-run mode, whatever
\* the earlier results; the errors are the results that are errors, in that
\* order, and each of them is on sys.stderr after the heading.
C4_CollectAll ==
    (Done("on_page_markdown") /\ NonEmpty(VALIDATE_CLI_EXAMPLES))
    => \A expected \in {PageCommands(markdown, 1)} :
       \A failed \in {SelectSeq(calls, LAMBDA c : c.result.some)} :
          /\ Len(calls) = Len(expected)
          /\ \A i \in 1..Len(calls) :
                calls[i].command = expected[i] /\ calls[i].dry_run
          /\ Len(errors) = Len(failed)
          /\ \A i \in 1..Len(errors) : errors[i] = failed[i].result.val
          /\ errors # <<>> =>
                /\ Len(stderr) = Len(errors) + 1
                /\ \A i \in 1..Len(errors) :
                      stderr[i + 1] = MSG_BULLET \o errors[i] \o NL

C4_Witness ==
    /\ Done("on_page_markdown")
    /\ markdown = HEAD_BASH \o ARBITER_PLAIN \o NL \o FENCE \o NL
                  \o HEAD_BASH \o ARBITER_PLAIN \o NL \o FENCE \o NL
    /\ Len(calls) = 2
    /\ calls[1].result.some
    /\ ~calls[2].result.some
    /\ Len(stderr) = 2
    /\ ret.kind = "raise"

\* C5: with the enabling toggle in the environment and the strict toggle not
\* in it, on_page_markdown does not raise and returns its input as it is,
\* whatever the input, the results of the checks and the page argument.
C5_LenientReturnsInput ==
    (/\ op = "on_page_markdown"
     /\ Present(VALIDATE_CLI_EXAMPLES)
     /\ ~Present(VALIDATE_CLI_STRICT))
    => /\ ret.kind # "raise"
       /\ pc = "done" => Returned(Some(markdown))

C5_Witness ==
    /\ Done("on_page_markdown")
    /\ NonEmpty(VALIDATE_CLI_EXAMPLES)
    /\ ~Present(VALIDATE_CLI_STRICT)
    /\ kwargs.some
    /\ Len(errors) = 2
    /\ Len(stderr) = 3
    /\ Returned(Some(markdown))

\* C6: in execute mode, for a command that is neither empty nor a comment and
\* that runs to its end, the result is a failure message, holding the command
\* and the error output, exactly when the status is not 0 and '--help' is not
\* in the command; otherwise it is None.
C6_ExecuteFailure ==
    \A i \in 1..Len(calls) :
        (/\ ~calls[i].dry_run
         /\ ~Blank(calls[i].command)
         /\ ~Comment(calls[i].command)
         /\ calls[i].outcome.kind = "exit")
        => /\ calls[i].result.some <=>
                 (calls[i].outcome.rc # 0 /\ ~Contains(calls[i].command, HELP_FLAG))
           /\ calls[i].result.some =>
                 /\ Contains(calls[i].result.val, calls[i].command)
                 /\ Contains(calls[i].result.val, calls[i].outcome.text)
                 /\ calls[i].outcome.text # <<>>

C6_Witness ==
    /\ Done("validate_cli_block")
    /\ ~calls[1].dry_run
    /\ calls[1].command = <<"x">> \o HELP_FLAG
    /\ calls[1].outcome.kind = "exit"
    /\ calls[1].outcome.rc = 2
    /\ Returned(None)

\* C7: in dry-run mode a command whose stripped text does not start with
\* 'arbiter' gets None, and no subprocess is started for it.
C7_OutOfScopeAccepted ==
    \A i \in 1..Len(calls) :
        (/\ calls[i].dry_run
         /\ ~StartsWith(Strip(calls[i].command), ARBITER))
        => /\ calls[i].result = None
           /\ ~calls[i].shell.some

C7_Witness ==
    /\ Done("validate_cli_block")
    /\ calls[1].dry_run
    /\ calls[1].command = <<"x">> \o ARBITER
    /\ ~calls[1].shell.some
    /\ Returned(None)

\* C8: in both modes an empty or whitespace-only command, and a command whose
\* first character after whitespace is '#', gets None and no subprocess; so
\* a line '$ # comment' of a page gives no error.
C8_BlankAndCommentSkipped ==
    \A i \in 1..Len(calls) :
        (Blank(calls[i].command) \/ Comment(calls[i].command))
        => /\ calls[i].result = None
           /\ ~calls[i].shell.some

C8_Witness ==
    /\ Done("on_page_markdown")
    /\ Len(calls) = 2
    /\ calls[1].command = <<"#"," ","c">>
    /\ calls[2].command = <<>>
    /\ errors = <<>>

\* C9, as stated: each toggle counts as set whenever the variable is in the
\* environment, whatever its value, the empty string included, and as unset
\* only when it is not; read at every call.
C9_PresenceChecks ==
    /\ Done("on_pre_build") =>
          /\ Len(stdout) >= 1 <=> Present(VALIDATE_CLI_EXAMPLES)
          /\ Len(stdout) = 2 <=>
                (Present(VALIDATE_CLI_EXAMPLES) /\ Present(VALIDATE_CLI_STRICT))
    /\ Done("on_page_markdown") =>
          /\ \A expected \in {PageCommands(markdown, 1)} :
                Len(calls) = Len(expected)
                   <=> (Present(VALIDATE_CLI_EXAMPLES) \/ expected = <<>>)
          /\ errors # <<>> => (ret.kind = "raise" <=> Present(VALIDATE_CLI_STRICT))

\* C9, amended: each toggle counts as set exactly when the variable is in the
\* environment with a value that is not the empty string, whatever that value
\* ('0' included), and as unset when it is absent or empty; read at every call.
C9_NonEmptyChecks ==
    /\ Done("on_pre_build") =>
          /\ Len(stdout) >= 1 <=> NonEmpty(VALIDATE_CLI_EXAMPLES)
          /\ Len(stdout) = 2 <=>
                (NonEmpty(VALIDATE_CLI_EXAMPLES) /\ NonEmpty(VALIDATE_CLI_STRICT))
    /\ Done("on_page_markdown") =>
          /\ \A expected \in {PageCommands(markdown, 1)} :
                Len(calls) = Len(expected)
                   <=> (NonEmpty(VALIDATE_CLI_EXAMPLES) \/ expected = <<>>)
          /\ errors # <<>> => (ret.kind = "raise" <=> NonEmpty(VALIDATE_CLI_STRICT))

C9_Witness ==
    /\ Done("on_page_markdown")
    /\ env[VALIDATE_CLI_EXAMPLES] = Some(<<"0">>)
    /\ env[VALIDATE_CLI_STRICT] = Some(<<>>)
    /\ errors # <<>>
    /\ Returned(Some(markdown))

\* C10: of the lines of a block, each trimmed, the commands are those that
\* start with '$', without the '$' and trimmed again, and those that start
\* with 'arbiter', as they are; every other line is dropped; one command for
\* each such line, in the order of the lines.
IsCandidate(l) ==
    /\ Strip(l) # <<>>
    /\ Strip(l)[1] = "$" \/ StartsWith(Strip(l), ARBITER)

CandidateOf(l) == IF Strip(l)[1] = "$" THEN Strip(Tail(Strip(l))) ELSE Strip(l)

C10_CommandSplitting ==
    op = "on_page_markdown" =>
    \A lines \in {Split(group, "\n")} :
    \A Q \in {{i \in 1..Len(lines) : IsCandidate(lines[i])}} :
        /\ Len(commands) = Cardinality(Q)
        /\ \A k \in 1..Len(commands) :
              \E i \in Q : /\ Cardinality({j \in Q : j <= i}) = k
                           /\ commands[k] = CandidateOf(lines[i])

C10_Witness ==
    /\ op = "on_page_markdown"
    /\ pc = "validate"
    /\ Len(Split(group, "\n")) = 3
    /\ Contains(group, <<"o","k","\n">>)
    /\ commands = << <<"a","r","b","i","t","e","r"," ","\"","x">> >>
====
